---- MODULE Spec2Model ----
(***************************************************************************)
(* The user registry of icp_dsatke_backend (src/lib.rs): a map from        *)
(* principal text to User record held in the canister's thread-local       *)
(* STATE, written by the update call add_or_update_user and read by the    *)
(* query call get_all_users.  The host runs one call at a time, each to    *)
(* completion, so every call is one atomic action.                         *)
(***************************************************************************)
EXTENDS Integers, Sequences, FiniteSets, TLC

VARIABLES
    users,      \* STATE.users : HashMap<PrincipalText, User>
    op,         \* the entry point that ran last ("none" before the first call)
    reply,      \* the String the last add_or_update_user call returned
    listing,    \* the Vec<User> the last get_all_users call returned
    log         \* the arguments of the add_or_update_user calls made so far

vars == <<users, op, reply, listing, log>>

(***************************************************************************)
(* Bounds of the model.                                                    *)
(***************************************************************************)
\* the number of add_or_update_user calls a behaviour makes
MaxCalls == 3

(***************************************************************************)
(* Types (lib.rs:8-17).                                                    *)
(***************************************************************************)
\* PrincipalText = String: the sample holds the empty string
PrincipalText == {"", "p1", "p2"}

\* AccountId = String
AccountId == {"a1", "a2"}

\* A u64 is written as its four 16-bit limbs, most significant first.
U64 == [1..4 -> 0..(2^16 - 1)]

U64Zero == <<0, 0, 0, 0>>

U64Max == <<2^16 - 1, 2^16 - 1, 2^16 - 1, 2^16 - 1>>

\* Balance = u64: the sample holds both ends of the range
Balance == {U64Zero, U64Max}

\* struct User { principal_id, account_id, balance_e8s }, built field by
\* field as add_or_update_user builds it
UserSwappedFields(principal_id, account_id, balance_e8s) ==
    [principal_id |-> account_id,
     account_id   |-> principal_id,
     balance_e8s  |-> balance_e8s]

User(principal_id, account_id, balance_e8s) ==
    [principal_id |-> principal_id,
     account_id   |-> account_id,
     balance_e8s  |-> balance_e8s]

\* BackendState::default(): the empty HashMap
BackendStatePreloaded == [k \in {"p1"} |-> User("p1", "a1", U64Zero)]

BackendStateDefault == [k \in {} |-> User(k, k, U64Zero)]

(***************************************************************************)
(* HashMap::insert(k, v): v is stored under k, replacing what was there;   *)
(* every other key keeps its value.                                        *)
(***************************************************************************)
\* a map that keeps the first value stored under a key (entry().or_insert)
InsertIfAbsent(m, k, v) ==
    [x \in DOMAIN m \cup {k} |-> IF x \in DOMAIN m THEN m[x] ELSE v]

\* a map that keeps the old account_id when the key is present
InsertMerge(m, k, v) ==
    [x \in DOMAIN m \cup {k} |->
        IF x # k THEN m[x]
        ELSE IF k \in DOMAIN m
             THEN [v EXCEPT !.account_id = m[k].account_id]
             ELSE v]

\* a map that holds the newest record alone
InsertAlone(m, k, v) == [x \in {k} |-> v]

\* a map that also rewrites the records sharing the new record's account_id
InsertByAccount(m, k, v) ==
    [x \in DOMAIN m \cup {k} |->
        IF x = k THEN v
        ELSE IF m[x].account_id = v.account_id
             THEN [m[x] EXCEPT !.balance_e8s = v.balance_e8s]
             ELSE m[x]]

Insert(m, k, v) ==
    [x \in DOMAIN m \cup {k} |-> IF x = k THEN v ELSE m[x]]

(***************************************************************************)
(* format!("User {} stored successfully", principal_id)                    *)
(***************************************************************************)
Format(principal_id) == "User " \o principal_id \o " stored successfully"

(***************************************************************************)
(* users.values().cloned().collect(): one clone of every stored value, in  *)
(* the map's iteration order, which is any order of its keys.              *)
(***************************************************************************)
KeyOrders(m) ==
    {s \in [1..Cardinality(DOMAIN m) -> DOMAIN m] :
        \A i, j \in DOMAIN s : i # j => s[i] # s[j]}

ValuesCloned(m) == {[i \in DOMAIN s |-> m[s[i]]] : s \in KeyOrders(m)}

Init ==
    /\ users = BackendStateDefault
    /\ op = "none"
    /\ reply = ""
    /\ listing = <<>>
    /\ log = <<>>

(***************************************************************************)
(* #[update] fn add_or_update_user(principal_id, account_id, balance_e8s)  *)
(***************************************************************************)
\* a handler that stores the record under its account_id
add_or_update_user_by_account(principal_id, account_id, balance_e8s) ==
    /\ Len(log) < MaxCalls
    /\ LET user == User(principal_id, account_id, balance_e8s)
       IN  users' = Insert(users, account_id, user)
    /\ reply' = Format(principal_id)
    /\ op' = "add_or_update_user"
    /\ log' = Append(log, <<principal_id, account_id, balance_e8s>>)
    /\ UNCHANGED listing

\* a handler that refuses the empty principal text
add_or_update_user_validating(principal_id, account_id, balance_e8s) ==
    /\ Len(log) < MaxCalls
    /\ principal_id # ""
    /\ LET user == User(principal_id, account_id, balance_e8s)
       IN  users' = Insert(users, principal_id, user)
    /\ reply' = Format(principal_id)
    /\ op' = "add_or_update_user"
    /\ log' = Append(log, <<principal_id, account_id, balance_e8s>>)
    /\ UNCHANGED listing

add_or_update_user(principal_id, account_id, balance_e8s) ==
    /\ Len(log) < MaxCalls
    /\ LET user == User(principal_id, account_id, balance_e8s)
       IN  users' = Insert(users, principal_id, user)
    /\ reply' = Format(principal_id)
    /\ op' = "add_or_update_user"
    /\ log' = Append(log, <<principal_id, account_id, balance_e8s>>)
    /\ UNCHANGED listing

(***************************************************************************)
(* #[query] fn get_all_users() -> Vec<User>                                *)
(***************************************************************************)
\* a read that takes the records out of the map (drain instead of values)
get_all_users_drain ==
    /\ listing' \in ValuesCloned(users)
    /\ users' = BackendStateDefault
    /\ op' = "get_all_users"
    /\ UNCHANGED <<reply, log>>

get_all_users ==
    /\ listing' \in ValuesCloned(users)
    /\ op' = "get_all_users"
    /\ UNCHANGED <<users, reply, log>>

Next ==
    \/ \E p \in PrincipalText, a \in AccountId, b \in Balance :
          add_or_update_user(p, a, b)
    \/ get_all_users

Spec == Init /\ [][Next]_vars

(***************************************************************************)
(* What the properties below speak about.                                  *)
(***************************************************************************)
\* the elements of a sequence
Range(s) == {s[i] : i \in DOMAIN s}

\* the identities a call log upserted
Upserted(l) == {l[i][1] : i \in DOMAIN l}

\* the most recent call of l made for identity id
LastCall(l, id) ==
    l[CHOOSE i \in DOMAIN l :
        /\ l[i][1] = id
        /\ \A j \in DOMAIN l : j > i => l[j][1] # id]

\* the call that has just been made
ThisCall == log[Len(log)]

\* the calls made before it
Earlier == SubSeq(log, 1, Len(log) - 1)

\* get_all_users on map m reports a record for identity id
HasRecord(m, id) ==
    \E s \in ValuesCloned(m) : \E i \in DOMAIN s : s[i].principal_id = id

\* the step is a call of add_or_update_user
AddStep == op' = "add_or_update_user" /\ log' # log

\* the step is a call of get_all_users
GetStep == op' = "get_all_users"

TypeOK ==
    /\ DOMAIN users \subseteq PrincipalText \cup AccountId
    /\ \A k \in DOMAIN users :
          /\ users[k].principal_id \in PrincipalText
          /\ users[k].account_id \in AccountId
          /\ users[k].balance_e8s \in U64
    /\ op \in {"none", "add_or_update_user", "get_all_users"}
    /\ Len(log) <= MaxCalls

(***************************************************************************)
(* C1: after any sequence of add_or_update_user calls from the empty       *)
(* registry, get_all_users returns exactly one record for each identity    *)
(* upserted at least once, none for any other identity, and each record's  *)
(* three fields are the arguments of the most recent call for its          *)
(* identity.                                                               *)
(***************************************************************************)
C1_LastWriteWins ==
    op = "get_all_users" =>
        /\ {listing[i].principal_id : i \in DOMAIN listing} = Upserted(log)
        /\ Len(listing) = Cardinality(Upserted(log))
        /\ \A i \in DOMAIN listing :
              LET c == LastCall(log, listing[i].principal_id)
              IN  /\ listing[i].principal_id = c[1]
                  /\ listing[i].account_id = c[2]
                  /\ listing[i].balance_e8s = c[3]

C1_Witness ==
    /\ op = "get_all_users"
    /\ log = << <<"p1", "a1", U64Zero>>, <<"p2", "a1", U64Zero>>,
                <<"p1", "a2", U64Max>> >>
    /\ Len(listing) = 2

(***************************************************************************)
(* C2: in every reachable state the result of get_all_users never holds    *)
(* two records with the same principal_id.                                 *)
(***************************************************************************)
C2_OneRecordPerIdentity ==
    /\ \A s \in ValuesCloned(users) :
          \A i, j \in DOMAIN s :
              s[i].principal_id = s[j].principal_id => i = j
    /\ op = "get_all_users" =>
          \A i, j \in DOMAIN listing :
              listing[i].principal_id = listing[j].principal_id => i = j

C2_Witness ==
    /\ op = "get_all_users"
    /\ Len(listing) = 2
    /\ Len(log) = 3
    /\ listing[1].account_id = listing[2].account_id

(***************************************************************************)
(* C3: a call of add_or_update_user for an identity that has no record     *)
(* makes get_all_users return exactly one record more than before.         *)
(***************************************************************************)
C3_NewIdentityAddsOne ==
    [][(AddStep /\ ~HasRecord(users, log'[Len(log')][1])) =>
          \A s \in ValuesCloned(users), t \in ValuesCloned(users') :
              Len(t) = Len(s) + 1]_vars

C3_Witness ==
    /\ op = "add_or_update_user"
    /\ Len(log) = 3
    /\ ThisCall[1] \notin Upserted(Earlier)
    /\ Cardinality(Upserted(Earlier)) = 2
    /\ Cardinality(DOMAIN users) = 3

(***************************************************************************)
(* C4: a call of add_or_update_user for an identity that already has a     *)
(* record leaves the number of records get_all_users returns unchanged,    *)
(* and the identity's record afterwards carries the new account_id and the *)
(* new balance_e8s.                                                        *)
(***************************************************************************)
C4_ExistingIdentityOverwritten ==
    [][(AddStep /\ HasRecord(users, log'[Len(log')][1])) =>
          LET c == log'[Len(log')]
          IN  \A t \in ValuesCloned(users') :
                 /\ \A s \in ValuesCloned(users) : Len(t) = Len(s)
                 /\ \A i \in DOMAIN t :
                       t[i].principal_id = c[1] =>
                          /\ t[i].account_id = c[2]
                          /\ t[i].balance_e8s = c[3]]_vars

C4_Witness ==
    /\ op = "add_or_update_user"
    /\ Len(log) >= 2
    /\ ThisCall[1] \in Upserted(Earlier)
    /\ LastCall(Earlier, ThisCall[1])[2] # ThisCall[2]
    /\ LastCall(Earlier, ThisCall[1])[3] # ThisCall[3]
    /\ Cardinality(DOMAIN users) = 2

(***************************************************************************)
(* C5: no call deletes a record: an identity that has a record keeps one   *)
(* in every later state, and the number of records get_all_users returns   *)
(* never decreases.                                                        *)
(***************************************************************************)
C5_NeverDeleted ==
    [][users' # users =>
          LET before == ValuesCloned(users)
              after  == ValuesCloned(users')
          IN  /\ \A s \in before, t \in after :
                     /\ Len(t) >= Len(s)
                     /\ \A i \in DOMAIN s : \E j \in DOMAIN t :
                            t[j].principal_id = s[i].principal_id]_vars

C5_Witness ==
    /\ op = "get_all_users"
    /\ Len(listing) = 2
    /\ Len(log) = 3
    /\ Cardinality(DOMAIN users) = 2

(***************************************************************************)
(* C6: get_all_users is a pure read: the call leaves the map unchanged,    *)
(* and a get_all_users call that directly follows another returns the same *)
(* records; the returned sequence is a value apart from the map.           *)
(***************************************************************************)
C6_PureRead ==
    [][GetStep =>
          /\ users' = users
          /\ op = "get_all_users" =>
                /\ Range(listing') = Range(listing)
                /\ Len(listing') = Len(listing)]_vars

C6_Witness ==
    /\ op = "get_all_users"
    /\ Len(listing) = 3
    /\ Range(listing) = {users[k] : k \in DOMAIN users}

(***************************************************************************)
(* C7: add_or_update_user has no error outcome and validates nothing: for  *)
(* every identity (the empty string too), every account (one held by       *)
(* another identity too) and every balance of the u64 range the call can   *)
(* be made, it stores the record, and it returns the string                *)
(* "User <identity> stored successfully" naming the identity passed in.    *)
(***************************************************************************)
C7_NoValidation ==
    /\ Len(log) < MaxCalls =>
          \A p \in PrincipalText, a \in AccountId, b \in Balance :
              ENABLED add_or_update_user(p, a, b)
    /\ op = "add_or_update_user" =>
          /\ reply = "User " \o ThisCall[1] \o " stored successfully"
          /\ ThisCall[1] \in DOMAIN users
          /\ users[ThisCall[1]].account_id = ThisCall[2]
          /\ users[ThisCall[1]].balance_e8s = ThisCall[3]

C7_Witness ==
    /\ op = "add_or_update_user"
    /\ ThisCall = <<"", "a1", U64Max>>
    /\ reply = "User  stored successfully"
    /\ "p1" \in DOMAIN users
    /\ users["p1"].account_id = "a1"

(***************************************************************************)
(* C8: before any add_or_update_user call get_all_users returns the empty  *)
(* sequence.                                                               *)
(***************************************************************************)
C8_InitiallyEmpty ==
    log = <<>> =>
        /\ ValuesCloned(users) = {<<>>}
        /\ op = "get_all_users" => listing = <<>>

C8_Witness == log = <<>> /\ op = "get_all_users"

(***************************************************************************)
(* C9: add_or_update_user(id, account, balance) changes the entry of id    *)
(* alone: every other identity is present after the call exactly if it was *)
(* before, with the same account_id and balance_e8s, also when it holds    *)
(* the account_id the call passes.                                         *)
(***************************************************************************)
C9_OtherEntriesUntouched ==
    [][AddStep =>
          \A id \in PrincipalText \ {log'[Len(log')][1]} :
              /\ id \in DOMAIN users <=> id \in DOMAIN users'
              /\ HasRecord(users, id) <=> HasRecord(users', id)
              /\ id \in DOMAIN users =>
                    /\ users'[id].account_id = users[id].account_id
                    /\ users'[id].balance_e8s = users[id].balance_e8s]_vars

C9_Witness ==
    /\ op = "add_or_update_user"
    /\ \E id \in DOMAIN users \ {ThisCall[1]} :
          /\ users[id].account_id = ThisCall[2]
          /\ users[id].balance_e8s # ThisCall[3]

(***************************************************************************)
(* C10: every record of the map has a principal_id equal to the key it is  *)
(* stored under, so the identities get_all_users reports are the keys of   *)
(* the map.                                                                *)
(***************************************************************************)
C10_KeyIsPrincipal ==
    /\ \A k \in DOMAIN users : users[k].principal_id = k
    /\ \A s \in ValuesCloned(users) :
          {s[i].principal_id : i \in DOMAIN s} = DOMAIN users

C10_Witness ==
    /\ Cardinality(DOMAIN users) = 3
    /\ "" \in DOMAIN users
    /\ op = "add_or_update_user"

====
